---- MODULE Spec2Model ----
(***************************************************************************)
(* Model of escrow-cli's parser.py: a straight-line script that opens      *)
(* "arbiter.json", json.load()s it, converts the value with bytes(), and   *)
(* prints its base58 and hex encodings.                                    *)
(*                                                                         *)
(* The script's statements are the actions; the values of its variables    *)
(* (f, secret_key, secret_key_bytes, private_key_base58, private_key_hex)  *)
(* are the state, together with the process's standard output, pending     *)
(* exception and exit status.  The Python built-ins and the base58 package *)
(* the script calls are operators computed the way CPython / base58        *)
(* compute them.                                                           *)
(***************************************************************************)
EXTENDS Integers, Sequences, FiniteSets, TLC

(***************************************************************************)
(* Bounds of the model.                                                    *)
(***************************************************************************)
\* longest JSON array enumerated as file content
MaxLen == 3
\* largest top-level JSON integer enumerated as file content
MaxTopInt == 3

(***************************************************************************)
(* Values json.load can return (the file content once parsed).             *)
(*   kind  : the Python type json gives the value                          *)
(*   val   : the number for "int"; 0/1 for "bool" (False/True); unused (0)  *)
(*           for the other kinds                                           *)
(*   elems : the items of an "array"; the keys of an "object" (a dict      *)
(*           iterates over its keys, which json always makes str)          *)
(* An item of an array carries kind and val only.                          *)
(***************************************************************************)
Item(k, v) == [kind |-> k, val |-> v]

Value(k, v, es) == [kind |-> k, val |-> v, elems |-> es]

\* integers tried as array items: both sides of each edge of [0,255], and the
\* base58 radix
IntVals == {-1, 0, 1, 58, 255, 256}

IntItems == {Item("int", v) : v \in IntVals}

\* true, false, 1.5, "a", null, [] as array items
OtherItems ==
    {Item("bool", 1), Item("bool", 0), Item("float", 0), Item("string", 0),
     Item("null", 0), Item("array", 0)}

Items == IntItems \cup OtherItems

SeqsUpTo(S, n) == UNION {[1..k -> S] : k \in 0..n}

\* the array the repository's documentation uses as its example
ExampleArray == <<Item("int", 0), Item("int", 1), Item("int", 2), Item("int", 255)>>

Arrays ==
    {Value("array", 0, es) : es \in SeqsUpTo(Items, MaxLen) \cup {ExampleArray}}

\* {} and {"a": 1}
Objects ==
    {Value("object", 0, ks) : ks \in {<<>>, <<Item("string", 0)>>}}

Scalars ==
    {Value("int", n, <<>>) : n \in -1..MaxTopInt}
    \cup {Value("bool", b, <<>>) : b \in {0, 1}}
    \cup {Value(k, 0, <<>>) : k \in {"float", "null", "string"}}

JsonValues == Arrays \cup Objects \cup Scalars

NoValue == Value("null", 0, <<>>)

(***************************************************************************)
(* What can be at file_path when the script starts.                        *)
(*   missing     : no such file (open raises FileNotFoundError)            *)
(*   undecodable : the file opens but its bytes are not text in the        *)
(*                 locale's encoding (f.read() raises UnicodeDecodeError)  *)
(*   notjson     : text that is not JSON (json raises JSONDecodeError)     *)
(*   json        : a JSON document, value being what it parses to          *)
(***************************************************************************)
Files ==
    {[status |-> s, value |-> NoValue] : s \in {"missing", "undecodable", "notjson"}}
    \cup {[status |-> "json", value |-> v] : v \in JsonValues}

(***************************************************************************)
(* bytes(secret_key), line 13.  The result of a call is the bytes object   *)
(* or the exception it raises.                                             *)
(*                                                                         *)
(* CPython's bytes(x):                                                     *)
(*   - a str raises TypeError (string argument without an encoding);       *)
(*   - an object with __index__ (int, and bool, which subclasses int) is a *)
(*     COUNT: the result is that many zero bytes, ValueError if negative;  *)
(*   - any other iterable (list, dict) is converted item by item, each     *)
(*     item through __index__ (TypeError without one) and range-checked    *)
(*     against range(0, 256) (ValueError), stopping at the first bad item; *)
(*   - anything else (float, None) raises TypeError.                       *)
(***************************************************************************)
Returned(bs) == [exc |-> "none", bytes |-> bs]

Raised(e) == [exc |-> e, bytes |-> <<>>]

Zeros(n) == [i \in 1..n |-> 0]

HasIndex(kind) == kind \in {"int", "bool"}

\* what an iterable can yield: an item of a list, a key of a dict
PyObjects == [kind : STRING, val : Int]

\* the items are appended to the new object's buffer one by one; acc is the
\* buffer so far.  (A function, so that its arguments are values when a call
\* is evaluated.)
BytesFromIterable[items \in Seq(PyObjects), acc \in Seq(Int)] ==
    IF items = <<>> THEN Returned(acc)
    ELSE IF ~HasIndex(Head(items).kind) THEN Raised("TypeError")
    ELSE IF Head(items).val \notin 0..255 THEN Raised("ValueError")
    ELSE BytesFromIterable[Tail(items), Append(acc, Head(items).val)]

\* a sequence last to first
RECURSIVE Reversed(_)
Reversed(s) == IF s = <<>> THEN <<>> ELSE Reversed(Tail(s)) \o <<Head(s)>>

\* bytes() filling its buffer from the last item to the first
bytes_reversed(x) ==
    IF x.kind = "string" THEN Raised("TypeError")
    ELSE IF HasIndex(x.kind)
         THEN IF x.val < 0 THEN Raised("ValueError") ELSE Returned(Zeros(x.val))
    ELSE IF x.kind \in {"array", "object"} THEN BytesFromIterable[Reversed(x.elems), <<>>]
    ELSE Raised("TypeError")

bytes_(x) ==
    IF x.kind = "string" THEN Raised("TypeError")
    ELSE IF HasIndex(x.kind)
         THEN IF x.val < 0 THEN Raised("ValueError") ELSE Returned(Zeros(x.val))
    ELSE IF x.kind \in {"array", "object"} THEN BytesFromIterable[x.elems, <<>>]
    ELSE Raised("TypeError")

IsBytes(v) == \A i \in 1..Len(v) : v[i] \in 0..255

(***************************************************************************)
(* secret_key_bytes.hex(), line 20: two lowercase digits per byte, high    *)
(* nibble first.  A string is the sequence of its characters.              *)
(***************************************************************************)
HexDigits ==
    <<"0", "1", "2", "3", "4", "5", "6", "7", "8", "9", "a", "b", "c", "d", "e", "f">>

\* low nibble first
hex_swapped(bs) ==
    [i \in 1..(2 * Len(bs)) |->
        IF i % 2 = 1 THEN HexDigits[(bs[(i + 1) \div 2] % 16) + 1]
                     ELSE HexDigits[(bs[i \div 2] \div 16) + 1]]

hex(bs) ==
    [i \in 1..(2 * Len(bs)) |->
        IF i % 2 = 1 THEN HexDigits[(bs[(i + 1) \div 2] \div 16) + 1]
                     ELSE HexDigits[(bs[i \div 2] % 16) + 1]]

(***************************************************************************)
(* base58.b58encode(secret_key_bytes), line 16.                            *)
(*                                                                         *)
(*   def b58encode(v, alphabet=BITCOIN_ALPHABET):                          *)
(*       v = scrub_input(v)              # TypeError unless bytes or str   *)
(*       origlen = len(v); v = v.lstrip(b'\0'); newlen = len(v)            *)
(*       acc = int.from_bytes(v, byteorder='big')                          *)
(*       result = b58encode_int(acc, default_one=False, alphabet=alphabet) *)
(*       return alphabet[0:1] * (origlen - newlen) + result                *)
(*                                                                         *)
(*   def b58encode_int(i, default_one=True, alphabet=BITCOIN_ALPHABET):    *)
(*       if not i and default_one: return alphabet[0:1]                    *)
(*       string = b""                                                      *)
(*       while i:                                                          *)
(*           i, idx = divmod(i, base)                                      *)
(*           string = alphabet[idx:idx+1] + string                         *)
(*       return string                                                     *)
(*                                                                         *)
(* Python's int is unbounded.  It is kept here as its big-endian base-256  *)
(* digits without leading zeros (<<>> is 0), which is what int.from_bytes  *)
(* of the stripped bytes is, and divmod is long division on the digits.    *)
(***************************************************************************)
\* b'123456789ABCDEFGHJKLMNPQRSTUVWXYZabcdefghijkmnopqrstuvwxyz': a bytes
\* object, kept as its byte values (the ASCII codes of 1-9, A-H, J-N, P-Z,
\* a-k, m-z)
BITCOIN_ALPHABET ==
    <<49, 50, 51, 52, 53, 54, 55, 56, 57,
      65, 66, 67, 68, 69, 70, 71, 72,
      74, 75, 76, 77, 78,
      80, 81, 82, 83, 84, 85, 86, 87, 88, 89, 90,
      97, 98, 99, 100, 101, 102, 103, 104, 105, 106, 107,
      109, 110, 111, 112, 113, 114, 115, 116, 117, 118, 119, 120, 121, 122>>

base == Len(BITCOIN_ALPHABET)

RECURSIVE lstrip0(_)
lstrip0(v) == IF v # <<>> /\ Head(v) = 0 THEN lstrip0(Tail(v)) ELSE v

\* divmod(i, base) by long division: rem is the remainder carried in, quot
\* the quotient's digits so far.
\* (LongDiv and b58encode_loop are functions, so that their arguments are
\* values when a call is evaluated.)
LongDiv[digits \in Seq(0..255), rem \in 0..(base - 1), quot \in Seq(Int)] ==
    IF digits = <<>> THEN [q |-> quot, r |-> rem]
    ELSE LongDiv[Tail(digits),
                 (rem * 256 + Head(digits)) % base,
                 Append(quot, (rem * 256 + Head(digits)) \div base)]

divmod(i) ==
    LET d == LongDiv[i, 0, <<>>] IN [q |-> lstrip0(d.q), r |-> d.r]

b58encode_loop[i \in Seq(0..255), string \in Seq(0..255)] ==
    IF i = <<>> THEN string
    ELSE LET d == divmod(i) IN
         b58encode_loop[d.q, <<BITCOIN_ALPHABET[d.r + 1]>> \o string]

\* the default_one=True variant, which b58encode does not ask for
b58encode_int_default_one(i) ==
    IF i = <<>> THEN <<BITCOIN_ALPHABET[1]>> ELSE b58encode_loop[i, <<>>]

\* b58encode_int(acc, default_one=False)
b58encode_int(i) == b58encode_loop[i, <<>>]

\* scrub_input accepts bytes (a str would be encoded first; the script passes bytes)
scrub_input_rejects_empty(v) == IsBytes(v) /\ v # <<>>

scrub_input_ok(v) == IsBytes(v)

\* the encoder without the leading-zero prefix
b58encode_nopad(v) == b58encode_int(lstrip0(v))

b58encode(v) ==
    LET stripped == lstrip0(v)
        pad      == [i \in 1..(Len(v) - Len(stripped)) |-> BITCOIN_ALPHABET[1]]
    IN  pad \o b58encode_int(stripped)

(***************************************************************************)
(* .decode('utf-8'), line 16: bytes to str.  A str is the sequence of its  *)
(* characters.  A byte below 128 decodes to the ASCII character of that    *)
(* code.  Bytes from 128 up start multi-byte sequences, which the          *)
(* encoder's alphabet never produces; they are taken to raise              *)
(* UnicodeDecodeError.  Characters outside the letters and digits have no  *)
(* literal here and are all shown as "?".                                  *)
(***************************************************************************)
Digits == <<"0", "1", "2", "3", "4", "5", "6", "7", "8", "9">>

Upper ==
    <<"A", "B", "C", "D", "E", "F", "G", "H", "I", "J", "K", "L", "M",
      "N", "O", "P", "Q", "R", "S", "T", "U", "V", "W", "X", "Y", "Z">>

Lower ==
    <<"a", "b", "c", "d", "e", "f", "g", "h", "i", "j", "k", "l", "m",
      "n", "o", "p", "q", "r", "s", "t", "u", "v", "w", "x", "y", "z">>

chr_(c) ==
    IF c \in 48..57 THEN Digits[c - 47]
    ELSE IF c \in 65..90 THEN Upper[c - 64]
    ELSE IF c \in 97..122 THEN Lower[c - 96]
    ELSE "?"

decode_utf8_ok(bs) == \A i \in 1..Len(bs) : bs[i] < 128

decode_utf8(bs) == [i \in 1..Len(bs) |-> chr_(bs[i])]

(***************************************************************************)
(* print(label, text), lines 17 and 21: the arguments joined by one space, *)
(* written to standard output as one line.  A line is kept as the sequence *)
(* of the strings written, in order; stdout is the sequence of lines.      *)
(***************************************************************************)
print_no_sep(out, label, text) == Append(out, <<label>> \o text)

print_(out, label, text) == Append(out, <<label, " ">> \o text)

(***************************************************************************)
(* The state of one run of the script.                                     *)
(***************************************************************************)
VARIABLES
    file,                \* what is at file_path (the environment; never written)
    pc,                  \* the statement to execute next
    f_open,              \* whether the handle f is open
    opens,               \* how many times open() has succeeded
    bound,               \* the script's variables that are assigned so far
    secret_key,          \* line 10
    secret_key_bytes,    \* line 13
    private_key_base58,  \* line 16
    private_key_hex,     \* line 20
    stdout,              \* the lines printed so far
    exc,                 \* the exception raised ("none" if none)
    exc_line,            \* the line that raised it (0 if none)
    exit_status          \* the process's exit status (-1 while it runs)

vars ==
    <<file, pc, f_open, opens, bound, secret_key, secret_key_bytes,
      private_key_base58, private_key_hex, stdout, exc, exc_line, exit_status>>

data == <<secret_key, secret_key_bytes, private_key_base58, private_key_hex>>

Init ==
    /\ file \in Files
    /\ pc = "open"
    /\ f_open = FALSE
    /\ opens = 0
    /\ bound = {}
    /\ secret_key = NoValue
    /\ secret_key_bytes = <<>>
    /\ private_key_base58 = <<>>
    /\ private_key_hex = <<>>
    /\ stdout = <<>>
    /\ exc = "none"
    /\ exc_line = 0
    /\ exit_status = -1

(***************************************************************************)
(* An exception nothing catches: the interpreter prints the traceback to   *)
(* standard error and the process exits with status 1.                     *)
(***************************************************************************)
UncaughtExitsZero(e, line) ==
    /\ exc' = e
    /\ exc_line' = line
    /\ pc' = "exited"
    /\ exit_status' = 0

Uncaught(e, line) ==
    /\ exc' = e
    /\ exc_line' = line
    /\ pc' = "exited"
    /\ exit_status' = 1

NoException == UNCHANGED <<exc, exc_line, exit_status>>

(***************************************************************************)
(* Line 9: with open(file_path, 'r') as f                                  *)
(***************************************************************************)
Open ==
    /\ pc = "open"
    /\ IF file.status = "missing"
       THEN /\ Uncaught("FileNotFoundError", 9)
            /\ UNCHANGED <<f_open, opens, bound>>
       ELSE /\ f_open' = TRUE
            /\ opens' = opens + 1
            /\ bound' = bound \cup {"f"}
            /\ pc' = "load"
            /\ NoException
    /\ UNCHANGED <<file, data, stdout>>

(***************************************************************************)
(* Line 10: secret_key = json.load(f), inside the with block.  json.load   *)
(* is json.loads(f.read()): the read can raise (the bytes are not text),   *)
(* the parse can raise (the text is not JSON).  An exception raised here   *)
(* first unwinds through the with statement.                               *)
(***************************************************************************)
JsonLoad ==
    /\ pc = "load"
    /\ IF file.status = "json"
       THEN /\ secret_key' = file.value
            /\ bound' = bound \cup {"secret_key"}
            /\ UNCHANGED <<exc, exc_line>>
       ELSE /\ exc' = IF file.status = "undecodable"
                      THEN "UnicodeDecodeError" ELSE "JSONDecodeError"
            /\ exc_line' = 10
            /\ UNCHANGED <<secret_key, bound>>
    /\ pc' = "with_exit"
    /\ UNCHANGED <<file, f_open, opens, secret_key_bytes, private_key_base58,
                   private_key_hex, stdout, exit_status>>

(***************************************************************************)
(* Leaving the with block of lines 9-10: f.__exit__ closes the file, on    *)
(* the normal path and on the exceptional one, and does not swallow the    *)
(* exception.                                                              *)
(***************************************************************************)
WithExitLeaksOnError ==
    /\ pc = "with_exit"
    /\ IF exc # "none"
       THEN Uncaught(exc, exc_line) /\ UNCHANGED f_open
       ELSE f_open' = FALSE /\ pc' = "bytes" /\ NoException
    /\ UNCHANGED <<file, opens, bound, data, stdout>>

WithExit ==
    /\ pc = "with_exit"
    /\ f_open' = FALSE
    /\ IF exc # "none"
       THEN Uncaught(exc, exc_line)
       ELSE pc' = "bytes" /\ NoException
    /\ UNCHANGED <<file, opens, bound, data, stdout>>

(***************************************************************************)
(* Line 13: secret_key_bytes = bytes(secret_key)                           *)
(***************************************************************************)
ToBytes ==
    /\ pc = "bytes"
    /\ LET r == bytes_(secret_key) IN
       IF r.exc # "none"
       THEN /\ Uncaught(r.exc, 13)
            /\ UNCHANGED <<secret_key_bytes, bound>>
       ELSE /\ secret_key_bytes' = r.bytes
            /\ bound' = bound \cup {"secret_key_bytes"}
            /\ pc' = "b58"
            /\ NoException
    /\ UNCHANGED <<file, f_open, opens, secret_key, private_key_base58,
                   private_key_hex, stdout>>

(***************************************************************************)
(* Line 16: private_key_base58 =                                           *)
(*              base58.b58encode(secret_key_bytes).decode('utf-8')         *)
(***************************************************************************)
EncodeBase58 ==
    /\ pc = "b58"
    /\ IF ~scrub_input_ok(secret_key_bytes)
       THEN /\ Uncaught("TypeError", 16)
            /\ UNCHANGED <<private_key_base58, bound>>
       ELSE LET encoded == b58encode(secret_key_bytes) IN
            IF ~decode_utf8_ok(encoded)
            THEN /\ Uncaught("UnicodeDecodeError", 16)
                 /\ UNCHANGED <<private_key_base58, bound>>
            ELSE /\ private_key_base58' = decode_utf8(encoded)
                 /\ bound' = bound \cup {"private_key_base58"}
                 /\ pc' = "print58"
                 /\ NoException
    /\ UNCHANGED <<file, f_open, opens, secret_key, secret_key_bytes,
                   private_key_hex, stdout>>

(***************************************************************************)
(* Line 17: print("Private Key (base58):", private_key_base58)             *)
(***************************************************************************)
PrintBase58 ==
    /\ pc = "print58"
    /\ stdout' = print_(stdout, "Private Key (base58):", private_key_base58)
    /\ pc' = "hex"
    /\ NoException
    /\ UNCHANGED <<file, f_open, opens, bound, data>>

(***************************************************************************)
(* Line 20: private_key_hex = secret_key_bytes.hex()                       *)
(***************************************************************************)
EncodeHex ==
    /\ pc = "hex"
    /\ private_key_hex' = hex(secret_key_bytes)
    /\ bound' = bound \cup {"private_key_hex"}
    /\ pc' = "printhex"
    /\ NoException
    /\ UNCHANGED <<file, f_open, opens, secret_key, secret_key_bytes,
                   private_key_base58, stdout>>

(***************************************************************************)
(* Line 21: print("Private Key (hex):", private_key_hex), the script's     *)
(* last statement: the interpreter then exits with status 0.               *)
(***************************************************************************)
PrintHex ==
    /\ pc = "printhex"
    /\ stdout' = print_(stdout, "Private Key (hex):", private_key_hex)
    /\ pc' = "exited"
    /\ exit_status' = 0
    /\ UNCHANGED <<file, f_open, opens, bound, data, exc, exc_line>>

Next ==
    \/ Open
    \/ JsonLoad
    \/ WithExit
    \/ ToBytes
    \/ EncodeBase58
    \/ PrintBase58
    \/ EncodeHex
    \/ PrintHex

Spec == Init /\ [][Next]_vars

\* The interpreter runs the script's next statement: a run does not stop
\* before the process exits.
FairSpec == Spec /\ WF_vars(Next)

(***************************************************************************)
(* Vocabulary of the properties.                                           *)
(***************************************************************************)
\* a JSON integer in [0,255] (true and false are JSON booleans, not integers)
IsByteInt(item) == item.kind = "int" /\ item.val \in 0..255

IsJsonArray == file.status = "json" /\ file.value.kind = "array"

TopLevelNotArray == file.status = "json" /\ file.value.kind # "array"

\* the file holds a JSON array of integers each in [0,255]
ValidKeyFile ==
    /\ IsJsonArray
    /\ \A i \in 1..Len(file.value.elems) : IsByteInt(file.value.elems[i])

ArrayWithBadItem ==
    /\ IsJsonArray
    /\ \E i \in 1..Len(file.value.elems) : ~IsByteInt(file.value.elems[i])

Exited == pc = "exited"

\* load is over and has produced Key Bytes
Loaded == "secret_key_bytes" \in bound

Base58Line == <<"Private Key (base58):", " ">> \o private_key_base58

HexLine == <<"Private Key (hex):", " ">> \o private_key_hex

(***************************************************************************)
(* A standard Bitcoin-alphabet base58 decoder, written from the encoding's *)
(* definition: each leading '1' is a zero byte, the rest is a base-58      *)
(* number, most significant digit first, written out in base 256.          *)
(***************************************************************************)
B58Chars ==
    <<"1", "2", "3", "4", "5", "6", "7", "8", "9",
      "A", "B", "C", "D", "E", "F", "G", "H", "J", "K", "L", "M", "N", "P", "Q",
      "R", "S", "T", "U", "V", "W", "X", "Y", "Z",
      "a", "b", "c", "d", "e", "f", "g", "h", "i", "j", "k", "m", "n", "o", "p",
      "q", "r", "s", "t", "u", "v", "w", "x", "y", "z">>

B58Index(c) == (CHOOSE i \in 1..Len(B58Chars) : B58Chars[i] = c) - 1

\* n * 58 + carry on the little-endian base-256 digits of n
RECURSIVE MulAdd58(_, _)
MulAdd58(le, carry) ==
    IF le = <<>>
    THEN IF carry = 0 THEN <<>> ELSE <<carry % 256>> \o MulAdd58(<<>>, carry \div 256)
    ELSE LET cur == Head(le) * 58 + carry
         IN  <<cur % 256>> \o MulAdd58(Tail(le), cur \div 256)

RECURSIVE B58Number(_, _)
B58Number(s, le) ==
    IF s = <<>> THEN le ELSE B58Number(Tail(s), MulAdd58(le, B58Index(Head(s))))

RECURSIVE LeadingCount(_, _)
LeadingCount(s, x) ==
    IF s # <<>> /\ Head(s) = x THEN 1 + LeadingCount(Tail(s), x) ELSE 0

B58Decode(s) ==
    IF \E i \in 1..Len(s) : \A j \in 1..Len(B58Chars) : B58Chars[j] # s[i]
    THEN <<-1>>
    ELSE LET k == LeadingCount(s, "1")
         IN  [i \in 1..k |-> 0] \o Reversed(B58Number(SubSeq(s, k + 1, Len(s)), <<>>))

\* the value of a hexadecimal digit, -1 for any other character
HexValue(c) ==
    LET lower == <<"0", "1", "2", "3", "4", "5", "6", "7", "8", "9",
                   "a", "b", "c", "d", "e", "f">>
    IN  IF \E i \in 1..16 : lower[i] = c
        THEN (CHOOSE i \in 1..16 : lower[i] = c) - 1
        ELSE -1

(***************************************************************************)
(* C1.  A file whose JSON top-level value is not an array (an object, a    *)
(* number, true/false, null, a string) makes load fail: the run prints no  *)
(* key-encoding line and exits with a non-zero status.                     *)
(***************************************************************************)
C1_NonArrayRejected ==
    TopLevelNotArray => stdout = <<>> /\ (Exited => exit_status # 0)

(***************************************************************************)
(* C2.  A JSON array with an item that is not an integer in [0,255] makes  *)
(* load fail: the run prints no key-encoding line and exits with a         *)
(* non-zero status; no such item is coerced into a byte.                   *)
(***************************************************************************)
C2_BadItemRejected ==
    ArrayWithBadItem => stdout = <<>> /\ ~Loaded /\ (Exited => exit_status # 0)

(***************************************************************************)
(* C3.  No partial output: a line is on standard output only once load     *)
(* has produced a valid byte sequence; a run in which an exception was     *)
(* raised has printed nothing and ends with a non-zero status; no run ends *)
(* having printed exactly one line.                                        *)
(***************************************************************************)
C3_NoPartialOutput ==
    /\ stdout # <<>> => Loaded /\ IsBytes(secret_key_bytes) /\ exc = "none"
    /\ exc # "none" => stdout = <<>> /\ (Exited => exit_status # 0)
    /\ ~Loaded /\ Exited => exc # "none"
    /\ Exited => Len(stdout) # 1

C3_Witness ==
    Exited /\ exc = "ValueError" /\ exc_line = 13 /\ exit_status = 1 /\ stdout = <<>>

(***************************************************************************)
(* C4.  On a run over a valid key file, standard output is the base58      *)
(* line then the hex line: never the hex line first, never a third line,   *)
(* and when the run ends both lines are there and the exit status is 0.    *)
(***************************************************************************)
C4_TwoLinesInOrder ==
    ValidKeyFile =>
        /\ Len(stdout) <= 2
        /\ Len(stdout) >= 1 => stdout[1] = Base58Line /\ "private_key_base58" \in bound
        /\ Len(stdout) = 2 => stdout[2] = HexLine /\ "private_key_hex" \in bound
        /\ Exited => Len(stdout) = 2 /\ exit_status = 0

C4_Witness ==
    /\ ValidKeyFile /\ file.value.elems = ExampleArray
    /\ Exited /\ exit_status = 0
    /\ stdout = <<<<"Private Key (base58):", " ", "1", "L", "i", "A">>,
                  <<"Private Key (hex):", " ", "0", "0", "0", "1", "0", "2", "f", "f">>>>

(***************************************************************************)
(* C5.  When load succeeds on a JSON array of integers in [0,255], Key     *)
(* Bytes has the array's length and its i-th byte is the array's i-th      *)
(* integer; the empty array gives the empty byte sequence.                 *)
(***************************************************************************)
C5_BytesMatchArray ==
    ValidKeyFile /\ Loaded =>
        /\ Len(secret_key_bytes) = Len(file.value.elems)
        /\ \A i \in 1..Len(file.value.elems) :
               secret_key_bytes[i] = file.value.elems[i].val

C5_Witness ==
    /\ ValidKeyFile /\ Loaded
    /\ secret_key_bytes = <<0, 255, 58>>

(***************************************************************************)
(* C6.  Round trip: a standard base58 decoder applied to the encoder's     *)
(* output gives back the byte sequence that was encoded.                   *)
(***************************************************************************)
C6_Base58RoundTrip ==
    "private_key_base58" \in bound =>
        B58Decode(private_key_base58) = secret_key_bytes

C6_Witness ==
    /\ "private_key_base58" \in bound
    /\ secret_key_bytes = <<0, 255, 58>>
    /\ B58Decode(private_key_base58) = <<0, 255, 58>>

(***************************************************************************)
(* C7.  Leading zeros: for a byte sequence with exactly k leading zero     *)
(* bytes the base58 text begins with exactly k '1' characters, and for a   *)
(* sequence of zero bytes only (the empty one included) it is k '1'        *)
(* characters and nothing else.                                            *)
(***************************************************************************)
C7_LeadingZerosKept ==
    "private_key_base58" \in bound =>
        LET k == LeadingCount(secret_key_bytes, 0) IN
        /\ LeadingCount(private_key_base58, "1") = k
        /\ k = Len(secret_key_bytes) => Len(private_key_base58) = k

C7_Witness ==
    /\ "private_key_base58" \in bound
    /\ secret_key_bytes = <<0, 0, 1>>
    /\ private_key_base58 = <<"1", "1", "2">>

(***************************************************************************)
(* C8.  The hex text has two characters per byte, all of them in 0-9a-f,   *)
(* and characters 2i-1 and 2i are the high and the low hexadecimal digit   *)
(* of byte i; [0,1,2,255] gives 000102ff and [] gives the empty string.    *)
(***************************************************************************)
C8_HexTwoDigitsPerByte ==
    "private_key_hex" \in bound =>
        /\ Len(private_key_hex) = 2 * Len(secret_key_bytes)
        /\ \A j \in 1..Len(private_key_hex) : HexValue(private_key_hex[j]) \in 0..15
        /\ \A i \in 1..Len(secret_key_bytes) :
               /\ HexValue(private_key_hex[2 * i - 1]) = secret_key_bytes[i] \div 16
               /\ HexValue(private_key_hex[2 * i]) = secret_key_bytes[i] % 16
        /\ secret_key_bytes = <<0, 1, 2, 255>> =>
               private_key_hex = <<"0", "0", "0", "1", "0", "2", "f", "f">>

C8_Witness ==
    /\ "private_key_hex" \in bound
    /\ secret_key_bytes = <<0, 1, 2, 255>>
    /\ private_key_hex = <<"0", "0", "0", "1", "0", "2", "f", "f">>

(***************************************************************************)
(* C9.  The file is opened at most once, and the handle is closed before   *)
(* the byte conversion, every encoding step and every print, and before    *)
(* the process ends, whether the read and the parse succeeded or raised.   *)
(***************************************************************************)
C9_HandleScoped ==
    /\ opens <= 1
    /\ pc \in {"bytes", "b58", "print58", "hex", "printhex", "exited"} => ~f_open
    /\ f_open => opens = 1 /\ pc \in {"load", "with_exit"}

C9_Witness ==
    Exited /\ exc = "JSONDecodeError" /\ opens = 1 /\ ~f_open

(***************************************************************************)
(* C10.  Encoding is total: a run fails only in load (lines 9, 10, 13),    *)
(* before anything is printed, and a run in which load has produced Key    *)
(* Bytes goes on to print both lines and exit with status 0.               *)
(***************************************************************************)
C10_EncodingTotal ==
    /\ [](Exited /\ exit_status # 0 => exc_line \in {9, 10, 13} /\ stdout = <<>>)
    /\ [](Loaded => exc = "none")
    /\ Loaded ~> (Exited /\ exit_status = 0 /\ Len(stdout) = 2)

C10_Witness ==
    /\ Exited /\ exit_status = 0 /\ Len(stdout) = 2
    /\ file.value.kind = "array" /\ secret_key_bytes = <<>>

====
